---- MODULE Spec2Model ----
(***************************************************************************)
(* Model of the chess bot's command handlers (src/tarrasch/handler.py):    *)
(* the claim handshake, moves with cooldown, takeback, forfeit, game-over  *)
(* resolution and the per-player records.  One action per inbound message: *)
(* handle_message runs the selected handler to completion.                 *)
(*                                                                         *)
(* The rule engine (python-chess) and the session store (tarrasch/board.py)*)
(* are not part of the sources at hand; they are modelled at the interface *)
(* the handlers use: a board is its two players, its move stack and its    *)
(* last-move timestamp.  A position always offers an ordinary move, a      *)
(* mating move and a drawing move, so every outcome the engine can report  *)
(* is produced.                                                            *)
(***************************************************************************)
EXTENDS Integers, Sequences, FiniteSets, TLC

\* ---------------------------------------------------------------- bounds
MaxTime == 2
MaxMoves == 2
MaxGames == 1
MaxSeconds == 172800

\* ------------------------------------------------------------ input sets
Keys == {"general|t1"}
\* alice and bob claim sides; carol only ever looks on and sends the other commands
Claimers == {"alice", "bob"}
Users == Claimers \cup {"carol"}
Colors == {"white", "black"}

\* SAN tokens offered to `move`: ordinary, mating, drawing, illegal.
PlainSan == "Nc3"
MateSan == "Qh5#"
DrawSan == "Kh1"
IllegalSan == "Zz9"
Sans == {PlainSan, MateSan, DrawSan, IllegalSan}

\* config.COOLDOWN_SECONDS
COOLDOWN_SECONDS == 2

VARIABLES
    STARTUP_STATE,  \* key -> (color -> user), the in-memory claim register
    boards,         \* key -> persisted board (the session store)
    records,        \* user -> (opponent -> [win, loss, draw]) (db.get/db.set)
    players,        \* the 'players' set of the store
    now,            \* time.time(), in whole seconds
    last,           \* the inbound message handled by the latest step
    loaded,         \* the board from_backend returned to that handler
    sent,           \* the messages that handler sent, in order
    raised,         \* the exception that escaped handle_message, if any
    found,          \* the pending claims that message found for its key
    pc,             \* handler -> the line it is at, when handlers interleave
    frame           \* handler -> its arguments and local variables

vars == <<STARTUP_STATE, boards, records, players, now, last, loaded, sent, raised,
          found, pc, frame>>

\* -------------------------------------------------------------- dict ops
Put(d, k, v) == [x \in (DOMAIN d) \cup {k} |-> IF x = k THEN v ELSE d[x]]
Del(d, k) == [x \in (DOMAIN d) \ {k} |-> d[x]]
EmptyDict == [x \in {} |-> x]

\* str.lower() on the tokens the model offers
Lower(s) ==
    CASE s = "White" -> "white"
      [] s = "Black" -> "black"
      [] OTHER -> s

\* ---------------------------------------------------- board (rule engine)
TarraschBoard(white_user, black_user, t) ==
    [white_user |-> white_user, black_user |-> black_user,
     move_stack |-> <<>>, last_move_time |-> t]

\* board.turn: TRUE when white is to move
turn(board) == Len(board.move_stack) % 2 = 0

current_turn_username(board) ==
    IF turn(board) THEN board.white_user ELSE board.black_user

is_legal(board, san) == san \in {PlainSan, MateSan, DrawSan}

push_san(board, san) == [board EXCEPT !.move_stack = Append(@, san)]

pop(board) ==
    [board EXCEPT !.move_stack = SubSeq(@, 1, Len(@) - 1)]

is_game_over(board) ==
    /\ board.move_stack # <<>>
    /\ board.move_stack[Len(board.move_stack)] \in {MateSan, DrawSan}

\* board.result(): "1-0", "0-1", "1/2-1/2", or "*" while undetermined
result(board) ==
    IF ~is_game_over(board) THEN "*"
    ELSE IF board.move_stack[Len(board.move_stack)] = DrawSan THEN "1/2-1/2"
    ELSE IF turn(board) THEN "0-1" ELSE "1-0"

\* ----------------------------------------------------------------- messages
MsgSayStart == [kind |-> "say_start"]
MsgPickSide == [kind |-> "pick_side"]
MsgWillPlay(u, color) == [kind |-> "will_play", user |-> u, color |-> color]
MsgAlready(w, b) == [kind |-> "already", white |-> w, black |-> b]
MsgLetsPlay == [kind |-> "lets_play"]
MsgUrl(board) == [kind |-> "url", moves |-> board.move_stack]
MsgToPlay(board) ==
    [kind |-> "to_play", user |-> current_turn_username(board),
     color |-> IF turn(board) THEN "white" ELSE "black",
     last_move |-> IF board.move_stack = <<>> THEN <<>>
                   ELSE <<board.move_stack[Len(board.move_stack)]>>]
MsgWait(text) == [kind |-> "wait", text |-> text]
MsgIllegal == [kind |-> "illegal"]
MsgOnlyCurrent(u) == [kind |-> "only_current", user |-> u]
MsgAnalysis == [kind |-> "analysis"]
MsgApology == [kind |-> "apology"]
MsgWins(u, color) == [kind |-> "wins", user |-> u, color |-> color]
MsgDraw == [kind |-> "draw"]
MsgNoBoard == [kind |-> "no_board"]
MsgNotPlayed(u) == [kind |-> "not_played", user |-> u]
MsgRecord(u, rows) == [kind |-> "record", user |-> u, rows |-> rows]
MsgNoGames == [kind |-> "no_games"]
MsgLeaderboard(rows) == [kind |-> "leaderboard", rows |-> rows]
MsgHelp == [kind |-> "help"]
MsgAi(u) == [kind |-> "ai", user |-> u]

\* _render with a board at hand: the url, then the prompt unless game over
_render(board) ==
    IF is_game_over(board) THEN <<MsgUrl(board)>>
    ELSE <<MsgUrl(board), MsgToPlay(board)>>

\* ------------------------------------------------------------ time utility
\* int(round(x / unit)) for x >= 0: halves round away from zero
\* variant: the quotient is cut off, as division of whole numbers would
RoundDiv_floor(x, unit) == x \div unit

RoundDiv(x, unit) == (2 * x + unit) \div (2 * unit)

\* variant: the tiers start one unit early (60 s, 1 h, 1 day)
_humanize_early(seconds) ==
    IF seconds < 60 THEN [n |-> RoundDiv(seconds, 1), unit |-> "seconds"]
    ELSE IF seconds < 60 * 60 THEN [n |-> RoundDiv(seconds, 60), unit |-> "minutes"]
    ELSE IF seconds < 60 * 60 * 24 THEN [n |-> RoundDiv(seconds, 60 * 60), unit |-> "hours"]
    ELSE [n |-> RoundDiv(seconds, 60 * 60 * 24), unit |-> "days"]

_humanize(seconds) ==
    IF seconds < 120 THEN [n |-> RoundDiv(seconds, 1), unit |-> "seconds"]
    ELSE IF seconds < 60 * 60 * 2 THEN [n |-> RoundDiv(seconds, 60), unit |-> "minutes"]
    ELSE IF seconds < 60 * 60 * 24 THEN [n |-> RoundDiv(seconds, 60 * 60), unit |-> "hours"]
    ELSE [n |-> RoundDiv(seconds, 60 * 60 * 24), unit |-> "days"]

\* ---------------------------------------------------------------- cooldown
time_until_can_move(board, t) == COOLDOWN_SECONDS - (t - board.last_move_time)

\* variant: waits out the whole cooldown, without the one-second allowance
MustWait_strict(board, t) == time_until_can_move(board, t) > 0

MustWait(board, t) == time_until_can_move(board, t) > 1

\* ----------------------------------------------------------------- records
ZeroEntry == [win |-> 0, loss |-> 0, draw |-> 0]

_update_record(db, user, against, res) ==
    LET record == IF user \in DOMAIN db THEN db[user] ELSE EmptyDict
        entry == IF against \in DOMAIN record THEN record[against] ELSE ZeroEntry
        bumped == [entry EXCEPT ![res] = @ + 1]
    IN Put(db, user, Put(record, against, bumped))

\* variant: white's result misses the draw
white_result_nodraw(res) == IF res = "win" THEN "win" ELSE "loss"

white_result(res) == IF res = "draw" THEN "draw" ELSE IF res = "win" THEN "win" ELSE "loss"
\* variant: black is given white's result
black_result_same(res) == white_result(res)

black_result(res) == IF res = "draw" THEN "draw" ELSE IF res = "win" THEN "loss" ELSE "win"

_update_records(db, white_user, black_user, res) ==
    _update_record(_update_record(db, white_user, black_user, white_result(res)),
                   black_user, white_user, black_result(res))

RECURSIVE SumOver(_, _)
SumOver(f, S) ==
    IF S = {} THEN 0
    ELSE LET x == CHOOSE y \in S : TRUE IN f[x] + SumOver(f, S \ {x})

Total(record) ==
    SumOver([o \in DOMAIN record |->
                record[o].win + record[o].loss + record[o].draw], DOMAIN record)

\* entries written so far, over all players (two per recorded game)
Recorded(db) == SumOver([u \in DOMAIN db |-> Total(db[u])], DOMAIN db)

\* ----------------------------------------------------------------- handlers
\* A handler maps the stores (s) and its arguments to the stores it leaves,
\* the board it loaded, the messages it sent and the exception it raised.
Reply(s, msgs) == [s EXCEPT !.sent = s.sent \o msgs]

Raise(s, exc) == [s EXCEPT !.exc = exc]

\* variant: the players are enrolled when the game starts
_start_game_enrols(s, key, white_user, black_user, t) ==
    LET board == TarraschBoard(white_user, black_user, t)
    IN Reply([s EXCEPT !.boards = Put(@, key, board),
                       !.players = @ \cup {white_user, black_user}], _render(board))

\* variant: the two players change places
_start_game_swapped(s, key, white_user, black_user, t) ==
    LET board == TarraschBoard(black_user, white_user, t)
    IN Reply([s EXCEPT !.boards = Put(@, key, board)], _render(board))

_start_game(s, key, white_user, black_user, t) ==
    LET board == TarraschBoard(white_user, black_user, t)
    IN Reply([s EXCEPT !.boards = Put(@, key, board)], _render(board))

\* variant: the pending claims stay behind once the game has started
_handle_claim_keeps(s, key, user_name, rest, t) ==
    IF key \notin DOMAIN s.STARTUP_STATE THEN Reply(s, <<MsgSayStart>>)
    ELSE IF rest = <<>> \/ Lower(rest[1]) \notin Colors THEN Reply(s, <<MsgPickSide>>)
    ELSE LET color == Lower(rest[1])
             claims == Put(s.STARTUP_STATE[key], color, user_name)
             claimed == Reply([s EXCEPT !.STARTUP_STATE = Put(@, key, claims)],
                              <<MsgWillPlay(user_name, color)>>)
         IN IF "white" \in DOMAIN claims /\ "black" \in DOMAIN claims
            THEN _start_game(claimed, key, claims["white"], claims["black"], t)
            ELSE claimed

_handle_claim(s, key, user_name, rest, t) ==
    IF key \notin DOMAIN s.STARTUP_STATE THEN Reply(s, <<MsgSayStart>>)
    ELSE IF rest = <<>> \/ Lower(rest[1]) \notin Colors THEN Reply(s, <<MsgPickSide>>)
    ELSE LET color == Lower(rest[1])
             claims == Put(s.STARTUP_STATE[key], color, user_name)
             claimed == Reply([s EXCEPT !.STARTUP_STATE = Put(@, key, claims)],
                              <<MsgWillPlay(user_name, color)>>)
         IN IF "white" \in DOMAIN claims /\ "black" \in DOMAIN claims
            THEN LET started == _start_game(claimed, key, claims["white"], claims["black"], t)
                 IN [started EXCEPT !.STARTUP_STATE = Del(@, key)]
            ELSE claimed

\* variant: pending claims already there are kept
_handle_start_keeps(s, key, user_name, rest) ==
    IF key \in DOMAIN s.boards
    THEN Reply(s, <<MsgAlready(s.boards[key].white_user, s.boards[key].black_user)>>)
    ELSE IF key \in DOMAIN s.STARTUP_STATE THEN Reply(s, <<MsgLetsPlay>>)
    ELSE Reply([s EXCEPT !.STARTUP_STATE = Put(@, key, EmptyDict)], <<MsgLetsPlay>>)

\* variant: opens the handshake without looking for a board
_handle_start_unchecked(s, key, user_name, rest) ==
    Reply([s EXCEPT !.STARTUP_STATE = Put(@, key, EmptyDict)], <<MsgLetsPlay>>)

_handle_start(s, key, user_name, rest) ==
    IF key \in DOMAIN s.boards
    THEN Reply(s, <<MsgAlready(s.boards[key].white_user, s.boards[key].black_user)>>)
    ELSE Reply([s EXCEPT !.STARTUP_STATE = Put(@, key, EmptyDict)], <<MsgLetsPlay>>)

_handle_board(s, key, user_name, rest) ==
    IF key \notin DOMAIN s.boards THEN Raise(s, "TarraschNoBoardException")
    ELSE Reply([s EXCEPT !.loaded = <<s.boards[key]>>], _render(s.boards[key]))

\* the result _handle_game_over settles on: the override if given, else the
\* engine's; "undetermined" is the ValueError branch
\* variant: the override is ignored and the engine asked
game_result_engine(board, override) ==
    IF result(board) = "1-0" THEN "win"
    ELSE IF result(board) = "0-1" THEN "loss"
    ELSE IF result(board) = "*" THEN "undetermined"
    ELSE "draw"

game_result(board, override) ==
    IF override # "" THEN override
    ELSE IF result(board) = "1-0" THEN "win"
    ELSE IF result(board) = "0-1" THEN "loss"
    ELSE IF result(board) = "*" THEN "undetermined"
    ELSE "draw"

\* variant: a game against oneself is recorded like any other
_handle_game_over_selfplay(s, key, board, override, upload_ok) ==
    LET res == game_result(board, override)
        recorded ==
            [s EXCEPT
                !.records = _update_records(@, board.white_user, board.black_user, res),
                !.players = @ \cup {board.white_user, board.black_user}]
        uploaded == Reply(recorded, <<IF upload_ok THEN MsgAnalysis ELSE MsgApology>>)
        killed == [uploaded EXCEPT !.boards = Del(@, key)]
    IN IF res = "undetermined" THEN Raise(s, "ValueError")
       ELSE IF res # "draw"
       THEN Reply(killed, <<MsgWins(IF res = "win" THEN board.white_user ELSE board.black_user,
                                    IF res = "win" THEN "white" ELSE "black")>>)
       ELSE Reply(killed, <<MsgDraw>>)

\* variant: a failed upload escapes, before the board is killed
_handle_game_over_uncaught(s, key, board, override, upload_ok) ==
    LET res == game_result(board, override)
        recorded ==
            IF board.white_user # board.black_user
            THEN [s EXCEPT
                    !.records = _update_records(@, board.white_user, board.black_user, res),
                    !.players = @ \cup {board.white_user, board.black_user}]
            ELSE s
        uploaded == Reply(recorded, <<MsgAnalysis>>)
        killed == [uploaded EXCEPT !.boards = Del(@, key)]
    IN IF res = "undetermined" THEN Raise(s, "ValueError")
       ELSE IF ~upload_ok THEN Raise(recorded, "UploadError")
       ELSE IF res # "draw"
       THEN Reply(killed, <<MsgWins(IF res = "win" THEN board.white_user ELSE board.black_user,
                                    IF res = "win" THEN "white" ELSE "black")>>)
       ELSE Reply(killed, <<MsgDraw>>)

_handle_game_over(s, key, board, override, upload_ok) ==
    LET res == game_result(board, override)
        recorded ==
            IF board.white_user # board.black_user
            THEN [s EXCEPT
                    !.records = _update_records(@, board.white_user, board.black_user, res),
                    !.players = @ \cup {board.white_user, board.black_user}]
            ELSE s
        uploaded == Reply(recorded, <<IF upload_ok THEN MsgAnalysis ELSE MsgApology>>)
        killed == [uploaded EXCEPT !.boards = Del(@, key)]
    IN IF res = "undetermined" THEN Raise(s, "ValueError")
       ELSE IF res # "draw"
       THEN Reply(killed, <<MsgWins(IF res = "win" THEN board.white_user ELSE board.black_user,
                                    IF res = "win" THEN "white" ELSE "black")>>)
       ELSE Reply(killed, <<MsgDraw>>)

\* variant: compares with the white player whoever is to move
NotYourTurn_white(user_name, board) == user_name # board.white_user

NotYourTurn(user_name, board) == user_name # current_turn_username(board)

_handle_move(s, key, user_name, rest, t, upload_ok) ==
    IF key \notin DOMAIN s.boards THEN Raise(s, "TarraschNoBoardException")
    ELSE LET board == s.boards[key]
             got == [s EXCEPT !.loaded = <<board>>]
         IN IF NotYourTurn(user_name, board) THEN got
            ELSE IF rest = <<>> THEN got
            ELSE IF MustWait(board, t)
            THEN Reply(got, <<MsgWait(_humanize(time_until_can_move(board, t)))>>)
            ELSE IF ~is_legal(board, rest[1]) THEN Reply(got, <<MsgIllegal>>)
            ELSE LET pushed == [push_san(board, rest[1]) EXCEPT !.last_move_time = t]
                     saved == Reply([got EXCEPT !.boards = Put(@, key, pushed)],
                                    _render(pushed))
                 IN IF is_game_over(pushed)
                    THEN _handle_game_over(saved, key, pushed, "", upload_ok)
                    ELSE saved

_handle_takeback(s, key, user_name, rest) ==
    IF key \notin DOMAIN s.boards THEN Raise(s, "TarraschNoBoardException")
    ELSE LET board == s.boards[key]
             got == [s EXCEPT !.loaded = <<board>>]
         IN IF NotYourTurn(user_name, board)
            THEN Reply(got, <<MsgOnlyCurrent(current_turn_username(board))>>)
            ELSE IF board.move_stack = <<>> THEN Raise(got, "IndexError")
            ELSE Reply([got EXCEPT !.boards = Put(@, key, pop(board))], _render(pop(board)))

\* variant: the side to move is given the win
forfeit_result_swapped(board) == IF turn(board) THEN "win" ELSE "loss"

forfeit_result(board) == IF turn(board) THEN "loss" ELSE "win"

_handle_forfeit(s, key, user_name, rest, upload_ok) ==
    IF key \notin DOMAIN s.boards THEN Raise(s, "TarraschNoBoardException")
    ELSE LET board == s.boards[key]
         IN _handle_game_over([s EXCEPT !.loaded = <<board>>], key, board,
                              forfeit_result(board), upload_ok)

RecordRows(record) ==
    {[opponent |-> o,
      games |-> record[o].win + record[o].loss + record[o].draw,
      wins |-> record[o].win, losses |-> record[o].loss, draws |-> record[o].draw]
        : o \in DOMAIN record}

_handle_record(s, key, user_name, rest) ==
    IF user_name \notin DOMAIN s.records THEN Reply(s, <<MsgNotPlayed(user_name)>>)
    ELSE Reply(s, <<MsgRecord(user_name, RecordRows(s.records[user_name]))>>)

\* variant: every game counts as a win
Wins_all(record) == Total(record)

Wins(record) == SumOver([o \in DOMAIN record |-> record[o].win], DOMAIN record)
Losses(record) == SumOver([o \in DOMAIN record |-> record[o].loss], DOMAIN record)
Draws(record) == SumOver([o \in DOMAIN record |-> record[o].draw], DOMAIN record)

LeaderboardRows(db, roster) ==
    {[player |-> p,
      games |-> Wins(db[p]) + Losses(db[p]) + Draws(db[p]),
      wins |-> Wins(db[p]), losses |-> Losses(db[p]), draws |-> Draws(db[p])]
        : p \in roster \cap DOMAIN db}

_handle_leaderboard(s, key, user_name, rest) ==
    IF Cardinality(s.players) = 0 THEN Reply(s, <<MsgNoGames>>)
    ELSE Reply(s, <<MsgLeaderboard(LeaderboardRows(s.records, s.players))>>)

_handle_help(s, key, user_name, rest) == Reply(s, <<MsgHelp>>)

_handle_ai(s, key, user_name, rest) == Reply(s, <<MsgAi(user_name)>>)

COMMANDS == {"ai", "start", "claim", "board", "move", "takeback", "forfeit",
             "record", "leaderboard", "help"}

Dispatch(command, s, key, user_name, rest, t, upload_ok) ==
    CASE command = "ai" -> _handle_ai(s, key, user_name, rest)
      [] command = "start" -> _handle_start(s, key, user_name, rest)
      [] command = "claim" -> _handle_claim(s, key, user_name, rest, t)
      [] command = "board" -> _handle_board(s, key, user_name, rest)
      [] command = "move" -> _handle_move(s, key, user_name, rest, t, upload_ok)
      [] command = "takeback" -> _handle_takeback(s, key, user_name, rest)
      [] command = "forfeit" -> _handle_forfeit(s, key, user_name, rest, upload_ok)
      [] command = "record" -> _handle_record(s, key, user_name, rest)
      [] command = "leaderboard" -> _handle_leaderboard(s, key, user_name, rest)
      [] command = "help" -> _handle_help(s, key, user_name, rest)

\* the stores as a handler finds them
Stores ==
    [STARTUP_STATE |-> STARTUP_STATE, boards |-> boards, records |-> records,
     players |-> players, loaded |-> <<>>, sent |-> <<>>, exc |-> "none"]

\* the except clause of handle_message
\* variant: the exception is let through
Caught_nothing(o) == o

Caught(o) ==
    IF o.exc = "TarraschNoBoardException"
    THEN [o EXCEPT !.sent = Append(@, MsgNoBoard), !.exc = "none"]
    ELSE o

Outcome(key, user_name, message, t, upload_ok) ==
    LET command == Lower(message[1])
        rest == Tail(message)
    IN IF command \in COMMANDS
       THEN Caught(Dispatch(command, Stores, key, user_name, rest, t, upload_ok))
       ELSE Stores

\* the model explores move stacks and record totals up to its bounds
WithinBounds(o) ==
    /\ \A k \in DOMAIN o.boards : Len(o.boards[k].move_stack) <= MaxMoves
    /\ Recorded(o.records) <= 2 * MaxGames

handle_message(key, user_name, message, upload_ok) ==
    LET o == Outcome(key, user_name, message, now, upload_ok)
    IN /\ WithinBounds(o)
       /\ STARTUP_STATE' = o.STARTUP_STATE
       /\ boards' = o.boards
       /\ records' = o.records
       /\ players' = o.players
       /\ loaded' = o.loaded
       /\ sent' = o.sent
       /\ raised' = o.exc
       /\ last' = [key |-> key, user_name |-> user_name, message |-> message]
       /\ found' = IF key \in DOMAIN STARTUP_STATE THEN <<STARTUP_STATE[key]>> ELSE <<>>
       /\ UNCHANGED <<pc, frame>>

NoMessage == [key |-> "", user_name |-> "", message |-> <<>>]

\* ------------------------------------------------------------------ actions
\* One action per command word: the message is handled to completion at the
\* current time.
Start == \E k \in Keys, u \in Users :
    /\ handle_message(k, u, <<"start">>, TRUE)
    /\ UNCHANGED now

Claim == \E k \in Keys, u \in Claimers,
            rest \in {<<>>, <<"white">>, <<"black">>, <<"Black">>, <<"green">>} :
    /\ handle_message(k, u, <<"claim">> \o rest, TRUE)
    /\ UNCHANGED now

Board == \E k \in Keys, u \in Users :
    /\ handle_message(k, u, <<"board">>, TRUE)
    /\ UNCHANGED now

Move == \E k \in Keys, u \in Users, rest \in {<<>>} \cup {<<m>> : m \in Sans},
           ok \in BOOLEAN :
    /\ handle_message(k, u, <<"move">> \o rest, ok)
    /\ UNCHANGED now

Takeback == \E k \in Keys, u \in Users :
    /\ handle_message(k, u, <<"takeback">>, TRUE)
    /\ UNCHANGED now

Forfeit == \E k \in Keys, u \in Users, ok \in BOOLEAN :
    /\ handle_message(k, u, <<"forfeit">>, ok)
    /\ UNCHANGED now

Record == \E k \in Keys, u \in Users :
    /\ handle_message(k, u, <<"record">>, TRUE)
    /\ UNCHANGED now

Leaderboard == \E k \in Keys, u \in Users :
    /\ handle_message(k, u, <<"leaderboard">>, TRUE)
    /\ UNCHANGED now

Help == \E k \in Keys, u \in Users :
    /\ handle_message(k, u, <<"help">>, TRUE)
    /\ UNCHANGED now

Ai == \E k \in Keys, u \in Users :
    /\ handle_message(k, u, <<"ai">>, TRUE)
    /\ UNCHANGED now

\* a first word that is no command
Unknown == \E k \in Keys, u \in Users :
    /\ handle_message(k, u, <<"hello">>, TRUE)
    /\ UNCHANGED now

\* time passes between messages
Tick ==
    /\ now < MaxTime
    /\ now' = now + 1
    /\ last' = NoMessage
    /\ loaded' = <<>>
    /\ sent' = <<>>
    /\ raised' = "none"
    /\ found' = <<>>
    /\ UNCHANGED <<STARTUP_STATE, boards, records, players, pc, frame>>

Init ==
    /\ STARTUP_STATE = EmptyDict
    /\ boards = EmptyDict
    /\ records = EmptyDict
    /\ players = {}
    /\ now = 0
    /\ last = NoMessage
    /\ loaded = <<>>
    /\ sent = <<>>
    /\ raised = "none"
    /\ found = <<>>
    /\ pc = EmptyDict
    /\ frame = EmptyDict

Next ==
    \/ Start
    \/ Claim
    \/ Board
    \/ Move
    \/ Takeback
    \/ Forfeit
    \/ Record
    \/ Leaderboard
    \/ Help
    \/ Ai
    \/ Unknown
    \/ Tick

Spec == Init /\ [][Next]_vars

\* ------------------------------------------------- the time utility alone
\* _humanize applied once to a duration drawn from 0..MaxSeconds
Humanize ==
    /\ last = NoMessage
    /\ \E seconds \in 0..MaxSeconds :
          /\ last' = [seconds |-> seconds]
          /\ sent' = <<_humanize(seconds)>>
    /\ UNCHANGED <<STARTUP_STATE, boards, records, players, now, loaded, raised,
                   found, pc, frame>>

SpecHumanize == Init /\ [][Humanize]_vars

\* --------------------------------------- two games ending at the same time
\* Two handlers run `forfeit` on two keys whose games share a player, one
\* store operation at a time and in any order: nothing in handler.py holds
\* a lock.
Handlers == {"h1", "h2"}
KeyOf(h) == IF h = "h1" THEN "general|t1" ELSE "random|t2"

\* db.get(user) or {} of _update_record
record_read(db, user) == IF user \in DOMAIN db THEN db[user] ELSE EmptyDict

\* the rest of _update_record, on the record read before
record_written(db, user, record, against, res) ==
    LET entry == IF against \in DOMAIN record THEN record[against] ELSE ZeroEntry
    IN Put(db, user, Put(record, against, [entry EXCEPT ![res] = @ + 1]))

At(h, label) == h \in DOMAIN pc /\ pc[h] = label
Goto(h, label) == pc' = [pc EXCEPT ![h] = label]

\* _handle_forfeit: the board is loaded and the result settled
LoadBoard(h) ==
    /\ At(h, "load")
    /\ frame' = [frame EXCEPT ![h] =
                    [key |-> KeyOf(h), board |-> boards[KeyOf(h)],
                     res |-> forfeit_result(boards[KeyOf(h)]), record |-> EmptyDict]]
    /\ Goto(h, "get_white")
    /\ UNCHANGED <<STARTUP_STATE, boards, records, players, now, last, loaded, sent,
                   raised, found>>

\* _update_record(white_user, black_user, white_result): db.get
GetWhite(h) ==
    /\ At(h, "get_white")
    /\ frame' = [frame EXCEPT ![h].record = record_read(records, frame[h].board.white_user)]
    /\ Goto(h, "set_white")
    /\ UNCHANGED <<STARTUP_STATE, boards, records, players, now, last, loaded, sent,
                   raised, found>>

\* _update_record(white_user, black_user, white_result): db.set
SetWhite(h) ==
    /\ At(h, "set_white")
    /\ records' = record_written(records, frame[h].board.white_user, frame[h].record,
                                 frame[h].board.black_user, white_result(frame[h].res))
    /\ Goto(h, "get_black")
    /\ UNCHANGED <<STARTUP_STATE, boards, players, now, last, loaded, sent, raised,
                   found, frame>>

\* _update_record(black_user, white_user, black_result): db.get
GetBlack(h) ==
    /\ At(h, "get_black")
    /\ frame' = [frame EXCEPT ![h].record = record_read(records, frame[h].board.black_user)]
    /\ Goto(h, "set_black")
    /\ UNCHANGED <<STARTUP_STATE, boards, records, players, now, last, loaded, sent,
                   raised, found>>

\* _update_record(black_user, white_user, black_result): db.set
SetBlack(h) ==
    /\ At(h, "set_black")
    /\ records' = record_written(records, frame[h].board.black_user, frame[h].record,
                                 frame[h].board.white_user, black_result(frame[h].res))
    /\ Goto(h, "sadd")
    /\ UNCHANGED <<STARTUP_STATE, boards, players, now, last, loaded, sent, raised,
                   found, frame>>

\* the two db.sadd('players', ...), each atomic and commuting
AddPlayers(h) ==
    /\ At(h, "sadd")
    /\ players' = players \cup {frame[h].board.white_user, frame[h].board.black_user}
    /\ Goto(h, "kill")
    /\ UNCHANGED <<STARTUP_STATE, boards, records, now, last, loaded, sent, raised,
                   found, frame>>

\* the upload, then board.kill()
KillBoard(h) ==
    /\ At(h, "kill")
    /\ boards' = Del(boards, frame[h].key)
    /\ Goto(h, "done")
    /\ UNCHANGED <<STARTUP_STATE, records, players, now, last, loaded, sent, raised,
                   found, frame>>

\* two sessions between distinct players, after no or one move, nothing on
\* record yet
InitRecords ==
    /\ \E w1 \in Users, b1 \in Users, w2 \in Users, b2 \in Users,
          m1 \in {<<>>, <<PlainSan>>}, m2 \in {<<>>, <<PlainSan>>} :
          /\ w1 # b1
          /\ w2 # b2
          /\ {w1, b1} \cap {w2, b2} # {}
          /\ boards = [k \in {KeyOf(h) : h \in Handlers} |->
                         IF k = KeyOf("h1")
                         THEN [TarraschBoard(w1, b1, 0) EXCEPT !.move_stack = m1]
                         ELSE [TarraschBoard(w2, b2, 0) EXCEPT !.move_stack = m2]]
    /\ STARTUP_STATE = EmptyDict
    /\ records = EmptyDict
    /\ players = {}
    /\ now = 0
    /\ last = NoMessage
    /\ loaded = <<>>
    /\ sent = <<>>
    /\ raised = "none"
    /\ found = <<>>
    /\ pc = [h \in Handlers |-> "load"]
    /\ frame = [h \in Handlers |-> EmptyDict]

NextRecords ==
    \E h \in Handlers :
        \/ LoadBoard(h)
        \/ GetWhite(h)
        \/ SetWhite(h)
        \/ GetBlack(h)
        \/ SetBlack(h)
        \/ AddPlayers(h)
        \/ KillBoard(h)

SpecRecords == InitRecords /\ [][NextRecords]_vars

\* ------------------------------------------- two claims at the same time
\* Two handlers run `claim` for different colours on one key after `start`,
\* one statement of _handle_claim at a time and in any order.
ClaimKey == "general|t1"

\* line 43: is the key in STARTUP_STATE
CheckKey(h) ==
    /\ At(h, "check_key")
    /\ Goto(h, IF ClaimKey \in DOMAIN STARTUP_STATE THEN "write" ELSE "done")
    /\ UNCHANGED <<STARTUP_STATE, boards, records, players, now, last, loaded, sent,
                   raised, found, frame>>

\* line 49: STARTUP_STATE[key][color] = user_name
WriteClaim(h) ==
    /\ At(h, "write")
    /\ IF ClaimKey \in DOMAIN STARTUP_STATE
       THEN /\ STARTUP_STATE' = Put(STARTUP_STATE, ClaimKey,
                                    Put(STARTUP_STATE[ClaimKey], frame[h].color,
                                        frame[h].user_name))
            /\ Goto(h, "check_both")
       ELSE /\ Goto(h, "KeyError")
            /\ UNCHANGED STARTUP_STATE
    /\ UNCHANGED <<boards, records, players, now, last, loaded, sent, raised, found,
                   frame>>

\* line 52: are both colours claimed
CheckBoth(h) ==
    /\ At(h, "check_both")
    /\ Goto(h, IF ClaimKey \notin DOMAIN STARTUP_STATE THEN "KeyError"
               ELSE IF DOMAIN STARTUP_STATE[ClaimKey] = Colors THEN "start_game"
               ELSE "done")
    /\ UNCHANGED <<STARTUP_STATE, boards, records, players, now, last, loaded, sent,
                   raised, found, frame>>

\* line 53: _start_game with the two claimed users
StartGame(h) ==
    /\ At(h, "start_game")
    /\ IF ClaimKey \in DOMAIN STARTUP_STATE
       THEN /\ boards' = Put(boards, ClaimKey,
                             TarraschBoard(STARTUP_STATE[ClaimKey]["white"],
                                           STARTUP_STATE[ClaimKey]["black"], now))
            /\ Goto(h, "del")
       ELSE /\ Goto(h, "KeyError")
            /\ UNCHANGED boards
    /\ UNCHANGED <<STARTUP_STATE, records, players, now, last, loaded, sent, raised,
                   found, frame>>

\* line 54: del STARTUP_STATE[key]
DelClaims(h) ==
    /\ At(h, "del")
    /\ IF ClaimKey \in DOMAIN STARTUP_STATE
       THEN /\ STARTUP_STATE' = Del(STARTUP_STATE, ClaimKey)
            /\ Goto(h, "done")
       ELSE /\ Goto(h, "KeyError")
            /\ UNCHANGED STARTUP_STATE
    /\ UNCHANGED <<boards, records, players, now, last, loaded, sent, raised, found,
                   frame>>

\* right after `start`: an empty pending entry, and two users about to claim
\* one colour each
InitClaims ==
    /\ STARTUP_STATE = [k \in {ClaimKey} |-> EmptyDict]
    /\ boards = EmptyDict
    /\ records = EmptyDict
    /\ players = {}
    /\ now \in 0..MaxTime
    /\ last = NoMessage
    /\ loaded = <<>>
    /\ sent = <<>>
    /\ raised = "none"
    /\ found = <<>>
    /\ pc = [h \in Handlers |-> "check_key"]
    /\ \E u1 \in Users, u2 \in Users, c1 \in Colors, c2 \in Colors :
          /\ u1 # u2
          /\ c1 # c2
          /\ frame = [h \in Handlers |->
                        IF h = "h1" THEN [user_name |-> u1, color |-> c1]
                        ELSE [user_name |-> u2, color |-> c2]]

NextClaims ==
    \E h \in Handlers :
        \/ CheckKey(h)
        \/ WriteClaim(h)
        \/ CheckBoth(h)
        \/ StartGame(h)
        \/ DelClaims(h)

SpecClaims == InitClaims /\ [][NextClaims]_vars

\* ------------------------------------------------------------ properties
\* the command word and the arguments of a handled message
Cmd(l) == IF l.message = <<>> THEN "" ELSE Lower(l.message[1])
Rest(l) == Tail(l.message)

\* a player's tally against an opponent, all zero while nothing is stored
Entry(db, user, against) ==
    IF user \in DOMAIN db /\ against \in DOMAIN db[user] THEN db[user][against]
    ELSE [win |-> 0, loss |-> 0, draw |-> 0]

WhiteToMove(b) == Len(b.move_stack) % 2 = 0
ToMove(b) == IF WhiteToMove(b) THEN b.white_user ELSE b.black_user
Remaining(b) == COOLDOWN_SECONDS - (now - b.last_move_time)

\* the step handles `move <san>` sent by the player to move of key k's session
MoverMoves(k) ==
    /\ k \in DOMAIN boards
    /\ last'.key = k
    /\ Cmd(last') = "move"
    /\ Rest(last') # <<>>
    /\ last'.user_name = ToMove(boards[k])

\* the step handles `forfeit`, or a mating or drawing move out of cooldown, on
\* key k's session: game-over resolution runs
GameEnds(k) ==
    /\ k \in DOMAIN boards
    /\ last'.key = k
    /\ \/ Cmd(last') = "forfeit"
       \/ /\ MoverMoves(k)
          /\ Rest(last')[1] \in {MateSan, DrawSan}
          /\ Remaining(boards[k]) <= 1

\* C1: on a key without a session, `start`, then `claim white` by A, then
\* `claim black` by B (A # B) creates exactly one session, white A and black B,
\* and leaves no pending claims: `start` leaves an empty pending entry and no
\* session, `claim white` by A on that leaves the entry {white: A} and still no
\* session, and `claim black` by B on that stores the session (A, B, no moves)
\* and removes the entry.
C1_Handshake ==
    [][\A k \in Keys, A \in Users, B \in Users :
        /\ ( /\ last' = [key |-> k, user_name |-> A, message |-> <<"start">>]
             /\ k \notin DOMAIN boards )
           => /\ k \in DOMAIN STARTUP_STATE'
              /\ STARTUP_STATE'[k] = EmptyDict
              /\ boards' = boards
        /\ ( /\ last' = [key |-> k, user_name |-> A, message |-> <<"claim", "white">>]
             /\ k \notin DOMAIN boards
             /\ k \in DOMAIN STARTUP_STATE
             /\ STARTUP_STATE[k] = EmptyDict )
           => /\ k \in DOMAIN STARTUP_STATE'
              /\ STARTUP_STATE'[k] = [c \in {"white"} |-> A]
              /\ boards' = boards
        /\ ( /\ last' = [key |-> k, user_name |-> B, message |-> <<"claim", "black">>]
             /\ A # B
             /\ k \notin DOMAIN boards
             /\ k \in DOMAIN STARTUP_STATE
             /\ STARTUP_STATE[k] = [c \in {"white"} |-> A] )
           => /\ k \notin DOMAIN STARTUP_STATE'
              /\ DOMAIN boards' = DOMAIN boards \cup {k}
              /\ boards'[k] = [white_user |-> A, black_user |-> B,
                               move_stack |-> <<>>, last_move_time |-> now]
              /\ raised' = "none"
    ]_vars

\* C1 witness: bob's `claim black` has just completed a handshake alice opened
C1_Witness ==
    /\ last = [key |-> "general|t1", user_name |-> "bob", message |-> <<"claim", "black">>]
    /\ "general|t1" \in DOMAIN boards
    /\ boards["general|t1"].white_user = "alice"
    /\ boards["general|t1"].black_user = "bob"
    /\ boards["general|t1"].move_stack = <<>>
    /\ "general|t1" \notin DOMAIN STARTUP_STATE
    /\ Len(sent) = 3

\* C2: `start` on a key that has a session reports the session's white and
\* black players and changes nothing: the session, the pending claims, the
\* records and the players set stay as they were.
C2_StartWhileActive ==
    [][\A k \in Keys :
        (Cmd(last') = "start" /\ last'.key = k /\ k \in DOMAIN boards)
        => /\ sent' = <<[kind |-> "already", white |-> boards[k].white_user,
                         black |-> boards[k].black_user]>>
           /\ boards' = boards
           /\ STARTUP_STATE' = STARTUP_STATE
           /\ k \notin DOMAIN STARTUP_STATE'
           /\ records' = records
           /\ players' = players
    ]_vars

\* C2 witness: a `start` answered with the players of the running game
C2_Witness ==
    /\ Cmd(last) = "start"
    /\ last.key \in DOMAIN boards
    /\ boards[last.key].move_stack # <<>>
    /\ Len(sent) = 1
    /\ sent[1].kind = "already"

\* C3: `move` by a user who is not the player to move of an active session
\* sends nothing and changes nothing, whatever the notation and the cooldown.
C3_MoveOutOfTurn ==
    [][\A k \in Keys :
        ( /\ Cmd(last') = "move"
          /\ last'.key = k
          /\ k \in DOMAIN boards
          /\ last'.user_name # ToMove(boards[k]) )
        => /\ sent' = <<>>
           /\ raised' = "none"
           /\ boards' = boards
           /\ UNCHANGED <<STARTUP_STATE, records, players>>
    ]_vars

\* C3 witness: white sent a mating move on black's turn, out of cooldown, and
\* nothing was sent
C3_Witness ==
    /\ last.message = <<"move", MateSan>>
    /\ last.key \in DOMAIN boards
    /\ ~WhiteToMove(boards[last.key])
    /\ last.user_name = boards[last.key].white_user
    /\ last.user_name # boards[last.key].black_user
    /\ Remaining(boards[last.key]) <= 1
    /\ sent = <<>>
    /\ loaded = <<boards[last.key]>>

\* the step answers with the wait message only and leaves the session as it was
Rejected(k) ==
    /\ Len(sent') = 1
    /\ sent'[1].kind = "wait"
    /\ boards' = boards

\* the step passed the move to the rule engine: it answered that the move is
\* illegal, or it rendered the new position
PassedOn(k) ==
    /\ Len(sent') >= 1
    /\ sent'[1].kind \in {"illegal", "url"}

\* C4 as stated: with last-move time T and cooldown C, a move by the player to
\* move at T+C-1 is rejected with a wait message and no mutation, and at T+C it
\* is passed to the rule engine.
C4_Original ==
    [][\A k \in Keys :
        MoverMoves(k)
        => /\ (now = boards[k].last_move_time + COOLDOWN_SECONDS - 1) => Rejected(k)
           /\ (now = boards[k].last_move_time + COOLDOWN_SECONDS) => PassedOn(k)
    ]_vars

\* C4 amended: a move by the player to move is rejected with a wait message
\* and no mutation while more than one second of the cooldown remains (at
\* T+C-2 and before), and is passed to the rule engine from T+C-1 on (at
\* T+C-1 and at T+C).
C4_Cooldown ==
    [][\A k \in Keys :
        MoverMoves(k)
        => /\ (now <= boards[k].last_move_time + COOLDOWN_SECONDS - 2) => Rejected(k)
           /\ (now >= boards[k].last_move_time + COOLDOWN_SECONDS - 1) => PassedOn(k)
    ]_vars

\* C4 witness: a move made exactly at T+C-1 was applied
C4_Witness ==
    /\ Cmd(last) = "move"
    /\ Len(loaded) = 1
    /\ last.user_name = ToMove(loaded[1])
    /\ now = loaded[1].last_move_time + COOLDOWN_SECONDS - 1
    /\ last.key \in DOMAIN boards
    /\ boards[last.key].move_stack = Append(loaded[1].move_stack, PlainSan)
    /\ boards[last.key].last_move_time = now

\* the winner of the game the step ends on board b; "" when it is drawn
WinnerOf(b) ==
    IF Cmd(last') = "forfeit"
    THEN (IF WhiteToMove(b) THEN b.black_user ELSE b.white_user)
    ELSE IF Rest(last')[1] = MateSan THEN ToMove(b)
    ELSE ""

\* C5: when a game between distinct players ends with A beating B, A's entry
\* against B gains one win, B's entry against A gains one loss and nothing
\* else changes in either; when it is drawn both entries gain one draw and
\* nothing else; both players are in the players set; no other entry changes.
C5_Records ==
    [][\A k \in Keys :
        (GameEnds(k) /\ boards[k].white_user # boards[k].black_user)
        => LET b == boards[k]
               A == WinnerOf(b)
               B == IF A = b.white_user THEN b.black_user ELSE b.white_user
           IN /\ {b.white_user, b.black_user} \subseteq players'
              /\ IF A = ""
                 THEN /\ Entry(records', b.white_user, b.black_user) =
                           [Entry(records, b.white_user, b.black_user) EXCEPT !.draw = @ + 1]
                      /\ Entry(records', b.black_user, b.white_user) =
                           [Entry(records, b.black_user, b.white_user) EXCEPT !.draw = @ + 1]
                 ELSE /\ Entry(records', A, B) = [Entry(records, A, B) EXCEPT !.win = @ + 1]
                      /\ Entry(records', B, A) = [Entry(records, B, A) EXCEPT !.loss = @ + 1]
              /\ \A u \in Users, v \in Users :
                    {u, v} # {b.white_user, b.black_user}
                    => Entry(records', u, v) = Entry(records, u, v)
    ]_vars

\* C5 witness: black has just mated white; the tallies show black's win and
\* white's loss
C5_Witness ==
    /\ last.message = <<"move", MateSan>>
    /\ Len(loaded) = 1
    /\ loaded[1].white_user = "alice"
    /\ loaded[1].black_user = "bob"
    /\ ~WhiteToMove(loaded[1])
    /\ Entry(records, "bob", "alice") = [win |-> 1, loss |-> 0, draw |-> 0]
    /\ Entry(records, "alice", "bob") = [win |-> 0, loss |-> 1, draw |-> 0]
    /\ players = {"alice", "bob"}

\* C6: `forfeit` in an active session gives the win to the side that is not
\* to move, whoever sent it, with no failure from the engine's undetermined
\* result: the winner is announced, and between distinct players the winner's
\* tally gains the win.
C6_Forfeit ==
    [][\A k \in Keys :
        (Cmd(last') = "forfeit" /\ last'.key = k /\ k \in DOMAIN boards)
        => LET b == boards[k]
               winner == IF WhiteToMove(b) THEN b.black_user ELSE b.white_user
               loser == IF WhiteToMove(b) THEN b.white_user ELSE b.black_user
               color == IF WhiteToMove(b) THEN "black" ELSE "white"
           IN /\ raised' = "none"
              /\ Len(sent') = 2
              /\ sent'[2] = [kind |-> "wins", user |-> winner, color |-> color]
              /\ (winner # loser) =>
                    /\ Entry(records', winner, loser).win = Entry(records, winner, loser).win + 1
                    /\ Entry(records', loser, winner).loss = Entry(records, loser, winner).loss + 1
    ]_vars

\* C6 witness: carol, who is not playing, forfeited a game in which black was
\* to move, and white was announced the winner
C6_Witness ==
    /\ last.message = <<"forfeit">>
    /\ last.user_name = "carol"
    /\ Len(loaded) = 1
    /\ ~WhiteToMove(loaded[1])
    /\ loaded[1].white_user # loaded[1].black_user
    /\ Len(sent) = 2
    /\ sent[2] = [kind |-> "wins", user |-> loaded[1].white_user, color |-> "white"]

\* the messages with the analysis link replaced by the apology
WithApology(msgs) ==
    [i \in DOMAIN msgs |-> IF msgs[i] = MsgAnalysis THEN MsgApology ELSE msgs[i]]

\* C7: whenever game-over resolution runs, after a game-ending move or a
\* forfeit, the session is deleted and the key has neither session nor pending
\* claims, whether the upload succeeds or fails; the failed upload's outcome is
\* the successful one's with the analysis message replaced by the apology.
C7_SessionEnds ==
    [][\A k \in Keys :
        GameEnds(k)
        => LET ok == Outcome(k, last'.user_name, last'.message, now, TRUE)
               failed == Outcome(k, last'.user_name, last'.message, now, FALSE)
           IN /\ k \notin DOMAIN boards'
              /\ k \notin DOMAIN STARTUP_STATE'
              /\ raised' = "none"
              /\ sent'[Len(sent') - 1] \in {MsgAnalysis, MsgApology}
              /\ MsgApology \notin {ok.sent[i] : i \in DOMAIN ok.sent}
              /\ failed = [ok EXCEPT !.sent = WithApology(ok.sent)]
              /\ failed.sent # ok.sent
    ]_vars

\* C7 witness: a game ended by a move, the upload failed, the apology was sent
\* and the session is gone
C7_Witness ==
    /\ Cmd(last) = "move"
    /\ Len(loaded) = 1
    /\ Len(sent) = 3
    /\ sent[2] = MsgApology
    /\ last.key \notin DOMAIN boards
    /\ last.key \notin DOMAIN STARTUP_STATE

\* C8: `takeback` by a user who is not the player to move of an active session
\* leaves the session (move history, side to move) as it was and is answered
\* with the rejection naming the player to move.
C8_TakebackOutOfTurn ==
    [][\A k \in Keys :
        ( /\ Cmd(last') = "takeback"
          /\ last'.key = k
          /\ k \in DOMAIN boards
          /\ last'.user_name # ToMove(boards[k]) )
        => /\ boards' = boards
           /\ sent' = <<[kind |-> "only_current", user |-> ToMove(boards[k])]>>
           /\ raised' = "none"
    ]_vars

\* C8 witness: white asked to take back on black's turn, after one move, and
\* was refused
C8_Witness ==
    /\ Cmd(last) = "takeback"
    /\ last.key \in DOMAIN boards
    /\ Len(boards[last.key].move_stack) = 1
    /\ last.user_name = boards[last.key].white_user
    /\ last.user_name # boards[last.key].black_user
    /\ Len(sent) = 1
    /\ sent[1].kind = "only_current"

\* C9: `board`, `move`, `takeback` and `forfeit` on a key without a session,
\* with or without pending claims, are answered with exactly one prompt to
\* start a new game, and nothing changes: no session, and the pending claims,
\* the records and the players set are as before.
C9_NoSession ==
    [][\A k \in Keys :
        ( /\ Cmd(last') \in {"board", "move", "takeback", "forfeit"}
          /\ last'.key = k
          /\ k \notin DOMAIN boards )
        => /\ sent' = <<[kind |-> "no_board"]>>
           /\ raised' = "none"
           /\ boards' = boards
           /\ STARTUP_STATE' = STARTUP_STATE
           /\ records' = records
           /\ players' = players
    ]_vars

\* C9 witness: a `takeback` during the handshake, after a game was recorded,
\* got the prompt
C9_Witness ==
    /\ Cmd(last) = "takeback"
    /\ last.key \notin DOMAIN boards
    /\ last.key \in DOMAIN STARTUP_STATE
    /\ DOMAIN STARTUP_STATE[last.key] = {"white"}
    /\ players # {}
    /\ sent = <<MsgNoBoard>>

\* what _humanize made of the duration d, when d is the one it was given
Humanized(d, n, unit) ==
    (last = [seconds |-> d]) => (sent = <<[n |-> n, unit |-> unit]>>)

\* C10 as stated: 45 s gives "45 seconds", 90 s "2 minutes", 5400 s "2 hours"
\* and 172800 s "2 days".
C10_Original ==
    /\ Humanized(45, 45, "seconds")
    /\ Humanized(90, 2, "minutes")
    /\ Humanized(5400, 2, "hours")
    /\ Humanized(172800, 2, "days")

\* C10 amended: 45 s gives "45 seconds", 90 s "90 seconds" (below the two
\* minutes where minutes start), 5400 s "90 minutes" (below the two hours
\* where hours start) and 172800 s "2 days".
C10_Humanize ==
    /\ Humanized(45, 45, "seconds")
    /\ Humanized(90, 90, "seconds")
    /\ Humanized(5400, 90, "minutes")
    /\ Humanized(172800, 2, "days")

\* C10 witness: 5400 seconds were rendered as 90 minutes
C10_Witness ==
    /\ last = [seconds |-> 5400]
    /\ sent = <<[n |-> 90, unit |-> "minutes"]>>

\* exactly one game is on record, and A won it against B
OneDecisiveGame(A, B) ==
    /\ Recorded(records) = 2
    /\ Entry(records, A, B) = [win |-> 1, loss |-> 0, draw |-> 0]
    /\ Entry(records, B, A) = [win |-> 0, loss |-> 1, draw |-> 0]

\* C11: `leaderboard` answers "no games recorded" while the players set is
\* empty; after exactly one decisive game between distinct players A and B it
\* lists exactly A and B, each with one game: A with one win, B with one loss.
C11_Leaderboard ==
    [][(Cmd(last') = "leaderboard")
        => /\ (players = {}) => sent' = <<[kind |-> "no_games"]>>
           /\ \A A \in Users, B \in Users :
                (A # B /\ OneDecisiveGame(A, B))
                => sent' = <<[kind |-> "leaderboard",
                              rows |-> {[player |-> A, games |-> 1, wins |-> 1,
                                         losses |-> 0, draws |-> 0],
                                        [player |-> B, games |-> 1, wins |-> 0,
                                         losses |-> 1, draws |-> 0]}]>>
    ]_vars

\* C11 witness: the leaderboard was shown with two rows after bob beat alice
C11_Witness ==
    /\ Cmd(last) = "leaderboard"
    /\ OneDecisiveGame("bob", "alice")
    /\ Len(sent) = 1
    /\ sent[1].kind = "leaderboard"
    /\ Cardinality(sent[1].rows) = 2

\* the games of the two handlers that u played in
GamesOf(u) ==
    Cardinality({h \in Handlers :
                    u \in {frame[h].board.white_user, frame[h].board.black_user}})

\* C12: when two games on different keys that share a player end at the same
\* time, with their record reads and writes interleaved, no update is lost:
\* once both handlers are done, each player's counts add up to the number of
\* those games the player was in (2 for a player of both).
C12_NoLostUpdate ==
    (\A h \in Handlers : At(h, "done"))
    => \A u \in Users : Total(record_read(records, u)) = GamesOf(u)

\* every player of the players set has a finished game against someone else
PlayedAnother ==
    \A p \in players : \E q \in Users \ {p} :
        Entry(records, p, q).win + Entry(records, p, q).loss
            + Entry(records, p, q).draw >= 1

\* C13: when a game whose white and black players are the same user ends, by
\* a move or by forfeit, no record and not the players set changes; and every
\* member of the players set has finished a game against a different player.
C13_SelfPlay ==
    [][ /\ \A k \in Keys :
              (GameEnds(k) /\ boards[k].white_user = boards[k].black_user)
              => (records' = records /\ players' = players)
        /\ PlayedAnother'
    ]_vars

\* C13 witness: alice forfeited a game against herself after a recorded game;
\* the records still hold that one game
C13_Witness ==
    /\ Cmd(last) = "forfeit"
    /\ Len(loaded) = 1
    /\ loaded[1].white_user = "alice"
    /\ loaded[1].black_user = "alice"
    /\ Len(sent) = 2
    /\ sent[2].kind = "wins"
    /\ players = {"alice", "bob"}
    /\ Recorded(records) = 2

\* C14: with messages handled one at a time, no key has pending claims and a
\* session at once.
C14_PendingOrSession ==
    \A k \in Keys : ~(k \in DOMAIN STARTUP_STATE /\ k \in DOMAIN boards)

\* C14 witness: a `claim` found pending claims, created the session and left
\* no pending claims
C14_Witness ==
    /\ Cmd(last) = "claim"
    /\ Len(found) = 1
    /\ Cardinality(DOMAIN found[1]) = 1
    /\ last.key \in DOMAIN boards
    /\ last.key \notin DOMAIN STARTUP_STATE

\* C15: the "result undetermined" error of the game-over handler is never
\* raised.
C15_NeverUndetermined == raised # "ValueError"

\* C15 witness: a drawing move went through game-over resolution with the
\* engine's result
C15_Witness ==
    /\ last.message = <<"move", DrawSan>>
    /\ Len(sent) = 3
    /\ sent[3] = MsgDraw
    /\ raised = "none"

\* C16: the records and the players set change only when a game ends: every
\* step that is neither a forfeit nor a game-ending move of an active session
\* leaves both as they were.
C16_OnlyAtGameEnd ==
    [][(\A k \in Keys : ~GameEnds(k)) => (records' = records /\ players' = players)]_vars

\* C16 witness: an ordinary move was applied while a game was on record
C16_Witness ==
    /\ last.message = <<"move", PlainSan>>
    /\ Len(sent) = 2
    /\ sent[1].kind = "url"
    /\ Recorded(records) = 2
    /\ players # {}

\* the unit the claim assigns to s seconds, and the unit's size in seconds
TierOf(s) ==
    IF s < 120 THEN "seconds"
    ELSE IF s < 7200 THEN "minutes"
    ELSE IF s < 86400 THEN "hours"
    ELSE "days"

SizeOf(unit) ==
    CASE unit = "seconds" -> 1
      [] unit = "minutes" -> 60
      [] unit = "hours" -> 3600
      [] unit = "days" -> 86400

\* C17: s seconds are rendered in seconds below 120, in minutes from 120 and
\* below 7200, in hours from 7200 and below 86400, in days from 86400, and the
\* number is s over the unit's size rounded to a nearest whole number.
C17_Tiers ==
    (last # NoMessage)
    => /\ Len(sent) = 1
       /\ sent[1].unit = TierOf(last.seconds)
       /\ LET size == SizeOf(sent[1].unit)
              off == sent[1].n * size - last.seconds
          IN (2 * off <= size) /\ (2 * (0 - off) <= size)

\* C17 witness: 7199 seconds were rendered as 120 minutes
C17_Witness ==
    /\ last = [seconds |-> 7199]
    /\ sent = <<[n |-> 120, unit |-> "minutes"]>>

\* C18: when two users' claims for different colours on one key are handled
\* at the same time, no claim is lost: once both handlers have ended, neither
\* has failed, the key has a session with both users under the colours they
\* claimed, and the pending entry is gone.
C18_NoLostClaim ==
    (\A h \in Handlers : At(h, "done") \/ At(h, "KeyError"))
    => /\ \A h \in Handlers : At(h, "done")
       /\ ClaimKey \in DOMAIN boards
       /\ \A h \in Handlers :
             frame[h].user_name = (IF frame[h].color = "white"
                                   THEN boards[ClaimKey].white_user
                                   ELSE boards[ClaimKey].black_user)
       /\ ClaimKey \notin DOMAIN STARTUP_STATE

\* C19: with messages handled one at a time, for distinct players A and B,
\* A's wins against B are B's losses against A, and their draws agree.
C19_Consistent ==
    \A A \in Users, B \in Users :
        (A # B)
        => /\ Entry(records, A, B).win = Entry(records, B, A).loss
           /\ Entry(records, A, B).draw = Entry(records, B, A).draw

\* C19 witness: a drawn game is on record for both players
C19_Witness ==
    /\ Entry(records, "alice", "bob").draw = 1
    /\ Entry(records, "bob", "alice").draw = 1
    /\ players = {"alice", "bob"}

\* C20: `start` on a key with pending claims and no session replaces the
\* pending claims by an empty entry, and a `claim` that finds the empty entry
\* never creates a session: it leaves at most its own colour claimed.
C20_Restart ==
    [][\A k \in Keys :
        /\ ( /\ Cmd(last') = "start"
             /\ last'.key = k
             /\ k \notin DOMAIN boards
             /\ k \in DOMAIN STARTUP_STATE )
           => /\ k \in DOMAIN STARTUP_STATE'
              /\ STARTUP_STATE'[k] = EmptyDict
              /\ boards' = boards
        /\ ( /\ Cmd(last') = "claim"
             /\ last'.key = k
             /\ k \in DOMAIN STARTUP_STATE
             /\ STARTUP_STATE[k] = EmptyDict )
           => /\ boards' = boards
              /\ k \in DOMAIN STARTUP_STATE'
              /\ Cardinality(DOMAIN STARTUP_STATE'[k]) <= 1
    ]_vars

\* C20 witness: a `start` found a claim for white pending and left the entry
\* empty
C20_Witness ==
    /\ Cmd(last) = "start"
    /\ Len(found) = 1
    /\ DOMAIN found[1] = {"white"}
    /\ last.key \in DOMAIN STARTUP_STATE
    /\ STARTUP_STATE[last.key] = EmptyDict
    /\ last.key \notin DOMAIN boards

====
